---------------------------- MODULE Spec2Model ----------------------------
(***************************************************************************)
(* The conversation client of the AI Dungeon Master web UI                 *)
(* (my-react-app/src/main.jsx).  The file holds two implementations of     *)
(* the client, DungeonMasterApp (lines 1-341) and SimpleDnDApp (lines      *)
(* 342-614); each is translated handler by handler.                        *)
(*                                                                         *)
(* A client is a record of its React state (messages, inputText,           *)
(* isLoading, isDarkMode), of the HTTP requests it has issued that the     *)
(* service has not answered yet (requests), and of two history fields      *)
(* (last, attempt) that only the properties read and that are recorded     *)
(* only under HistorySpec and LockstepSpec.  A handler is an operator from *)
(* the client before the call to the client after it; an async handler is  *)
(* cut at its await into the part that issues the request and the part     *)
(* that runs when the request settles (<name>_settled).                    *)
(*                                                                         *)
(* Granularity: a handler runs to its await without interruption (one      *)
(* JavaScript thread).  A handler reads the state through the closure of   *)
(* the render that created it (view) and writes the current state.  React  *)
(* renders at once after an event that set state, and later, in a task of  *)
(* its own (Render), after the mount effect or a settled request set       *)
(* state: between the continuation that set the state and that render,     *)
(* any other callback can run.  The mount effect is a passive effect: it   *)
(* runs in a task of its own (Mount), or before the render that the first  *)
(* state-setting event causes; its closure is that of the first render.    *)
(* The repository pins no version of React (the README asks for 18+), and  *)
(* the render after an event differs between the versions it admits: the   *)
(* version is a field of the client (react), chosen when it is built.      *)
(*                                                                         *)
(* Strings are sequences of tokens: a typed character is a token, and a    *)
(* literal of the source is one token, so a template literal is a          *)
(* concatenation.                                                          *)
(***************************************************************************)
EXTENDS Integers, Sequences, FiniteSets, TLC

VARIABLES client

vars == <<client>>

---------------------------------------------------------------------------
(* Bounds of the exploration.                                              *)

\* longest Conversation a user event may make by appending, when one request
\* is in flight after it (one Message less for each further request in
\* flight); user events that would make a longer one are not generated, and
\* the Message a settling request appends may exceed it by one
MaxMessages == 2

---------------------------------------------------------------------------
(* Strings.                                                                *)

Whitespace == {" "}

\* the texts the user types into the input field: nothing, a blank text, a
\* word, the word with whitespace before it or after it
Texts == {<<>>, <<" ">>, <<"a">>, <<" ", "a">>, <<"a", " ">>}

RECURSIVE trimStart(_)
trimStart(s) ==
    IF s # <<>> /\ Head(s) \in Whitespace THEN trimStart(Tail(s)) ELSE s

RECURSIVE trimEnd(_)
trimEnd(s) ==
    IF s # <<>> /\ s[Len(s)] \in Whitespace
    THEN trimEnd(SubSeq(s, 1, Len(s) - 1))
    ELSE s

\* a trim that removes nothing
trim_missing(s) == s

\* String.prototype.trim
trim(s) == trimEnd(trimStart(s))

CAMPAIGN_NAME == <<"web_campaign">>

META_COMMANDS == [SUMMARY |-> <<"summary">>, STATUS |-> <<"status">>]

MetaCommandSet == {META_COMMANDS.SUMMARY, META_COMMANDS.STATUS}

\* metaCommand = null
null == <<>>

InitialPrompt == <<"Start the adventure with a short, setting-focused intro.">>

\* the cross mark U+274C and the space after it
ErrorMarker == <<"(x) ">>

\* the text of the transient status Message; (gear) is U+2699 U+FE0F
ResetStatusText == <<"(gear) Attempting to reset campaign...">>

CheckTerminal == <<". Check your terminal!">>

Message(role, content) == [role |-> role, content |-> content]

---------------------------------------------------------------------------
(* The service: what a request can settle to.                              *)

\* response bodies {response: r} the service returns
Responses == {<<"You stand before a ruined keep.">>, <<"The goblin falls.">>}

\* fetch rejects (transport failure), or resolves with a status and a body
\* that is JSON ({response: r}) or not
Outcomes ==
    {[fetch |-> "rejected", status |-> 0, json |-> FALSE, response |-> <<>>]}
    \cup {[fetch |-> "resolved", status |-> 500, json |-> TRUE, response |-> <<>>]}
    \cup {[fetch |-> "resolved", status |-> 200, json |-> FALSE, response |-> <<>>]}
    \cup {[fetch |-> "resolved", status |-> 200, json |-> TRUE, response |-> r] :
            r \in Responses}

\* response.ok
ok(o) == o.status \in 200..299

\* the message of the TypeError fetch rejects with
FetchErrorMessage == <<"Failed to fetch">>

\* the message of the SyntaxError response.json() rejects with
JsonErrorMessage == <<"Unexpected token in JSON">>

StatusErrorMessage(o) == <<"Server returned status ", ToString(o.status)>>

Resolved(data) == [ok |-> TRUE, data |-> data, message |-> <<>>]
Thrown(message) == [ok |-> FALSE, data |-> <<>>, message |-> message]

---------------------------------------------------------------------------
(* Requests.                                                               *)

\* the body of POST /api/message (initial is "absent" when the key is not set)
MessageRequest(input, initial) ==
    [url |-> "/api/message", input |-> input,
     campaign_name |-> CAMPAIGN_NAME, initial |-> initial]

\* the body of POST /api/reset
ResetRequest ==
    [url |-> "/api/reset", input |-> <<>>,
     campaign_name |-> CAMPAIGN_NAME, initial |-> "absent"]

\* a handler suspended at its await: `by` names the handler that resumes
Await(by, request) == [by |-> by, request |-> request]

---------------------------------------------------------------------------
(* DungeonMasterApp.                                                       *)

ApiService_sendMessage(input, isInitial) ==
    MessageRequest(input, IF isInitial THEN "true" ELSE "false")

\* how the promise of ApiService.sendMessage settles
ApiService_sendMessage_settled(o) ==
    IF o.fetch = "rejected" THEN Thrown(FetchErrorMessage)
    ELSE IF ~ok(o) THEN Thrown(StatusErrorMessage(o))
    ELSE IF ~o.json THEN Thrown(JsonErrorMessage)
    ELSE Resolved([response |-> o.response])

ApiService_resetCampaign == ResetRequest

\* how the promise of ApiService.resetCampaign settles
ApiService_resetCampaign_settled(o) ==
    IF o.fetch = "rejected" THEN Thrown(FetchErrorMessage)
    ELSE IF ~ok(o) THEN Thrown(StatusErrorMessage(o))
    ELSE IF ~o.json THEN Thrown(JsonErrorMessage)
    ELSE Resolved([response |-> o.response])

\* the state a render shows and the handlers it creates close over:
\* Conversation, pending input, isLoading
Shared(s) ==
    [messages |-> s.messages, inputText |-> s.inputText,
     isLoading |-> s.isLoading]

\* the versions of React the build can install: 18 renders, after an event,
\* the updates of that event only; 19 renders with them the updates that
\* were waiting for a render
ReactVersions == {"18", "19"}

\* the first render: the useState initial values
FirstRender == [messages |-> <<>>, inputText |-> <<>>, isLoading |-> FALSE]

appendMessage(s, role, content) ==
    [s EXCEPT !.messages = Append(@, Message(role, content))]

showError(s, context, error) ==
    appendMessage(s, "assistant",
        ErrorMarker \o context \o <<": ">> \o error.message \o CheckTerminal)

initializeAdventure(s) ==
    [s EXCEPT !.isLoading = TRUE,
              !.requests = Append(@, Await("initializeAdventure",
                               ApiService_sendMessage(InitialPrompt, TRUE)))]

initializeAdventure_settled(s, o) ==
    LET data == ApiService_sendMessage_settled(o)
        t == IF data.ok
             THEN [s EXCEPT !.messages =
                                <<Message("assistant", data.data.response)>>]
             ELSE showError(s, <<"Initialization Error">>, data)
    IN  [t EXCEPT !.isLoading = FALSE]

\* sendMessage that shows no user Message for a meta-command
sendMessage_metaSilent(s, metaCommand) ==
    LET messageContent ==
            IF metaCommand # null THEN metaCommand ELSE trim(s.view.inputText)
    IN  IF messageContent = <<>> \/ s.view.isLoading
        THEN s
        ELSE LET s1 == IF metaCommand = null
                       THEN appendMessage(s, "user", messageContent)
                       ELSE s
                 s2 == IF metaCommand = null
                       THEN [s1 EXCEPT !.inputText = <<>>]
                       ELSE s1
             IN  [s2 EXCEPT !.isLoading = TRUE,
                            !.requests = Append(@, Await("sendMessage",
                                ApiService_sendMessage(messageContent, FALSE)))]

\* sendMessage that shows the trimmed text and sends the text as it was
\* typed
sendMessage_sendsRaw(s, metaCommand) ==
    LET messageContent ==
            IF metaCommand # null THEN metaCommand ELSE trim(s.view.inputText)
    IN  IF messageContent = <<>> \/ s.view.isLoading
        THEN s
        ELSE LET s1 == appendMessage(s, "user", messageContent)
                 s2 == IF metaCommand = null
                       THEN [s1 EXCEPT !.inputText = <<>>]
                       ELSE s1
             IN  [s2 EXCEPT !.isLoading = TRUE,
                            !.requests = Append(@, Await("sendMessage",
                                ApiService_sendMessage(
                                    IF metaCommand # null THEN metaCommand
                                    ELSE s.view.inputText, FALSE)))]

sendMessage(s, metaCommand) ==
    LET messageContent ==
            IF metaCommand # null THEN metaCommand ELSE trim(s.view.inputText)
    IN  IF messageContent = <<>> \/ s.view.isLoading
        THEN s
        ELSE LET s1 == appendMessage(s, "user", messageContent)
                 s2 == IF metaCommand = null
                       THEN [s1 EXCEPT !.inputText = <<>>]
                       ELSE s1
             IN  [s2 EXCEPT !.isLoading = TRUE,
                            !.requests = Append(@, Await("sendMessage",
                                ApiService_sendMessage(messageContent, FALSE)))]

\* sendMessage whose catch block shows the error and sends the Message again
sendMessage_settled_retry(s, o) ==
    LET data == ApiService_sendMessage_settled(o)
    IN  IF data.ok
        THEN [appendMessage(s, "assistant", data.data.response)
                EXCEPT !.isLoading = FALSE]
        ELSE [showError(s, <<"Error communicating with DM server">>, data)
                EXCEPT !.requests = Append(@, Await("sendMessage",
                           ApiService_sendMessage(
                               s.messages[Len(s.messages)].content, FALSE)))]

\* sendMessage that, once settled, sends the pending input if there is any
sendMessage_settled_flush(s, o) ==
    LET data == ApiService_sendMessage_settled(o)
        t == [(IF data.ok
               THEN appendMessage(s, "assistant", data.data.response)
               ELSE showError(s, <<"Error communicating with DM server">>, data))
                EXCEPT !.isLoading = FALSE]
    IN  sendMessage([t EXCEPT !.view = Shared(t)], null)

sendMessage_settled(s, o) ==
    LET data == ApiService_sendMessage_settled(o)
        t == IF data.ok
             THEN appendMessage(s, "assistant", data.data.response)
             ELSE showError(s, <<"Error communicating with DM server">>, data)
    IN  [t EXCEPT !.isLoading = FALSE]

handleReset(s, confirmed) ==
    IF ~confirmed
    THEN s
    ELSE [s EXCEPT !.isLoading = TRUE,
                   !.messages = <<Message("assistant", ResetStatusText)>>,
                   !.requests = Append(@, Await("handleReset",
                                                ApiService_resetCampaign))]

\* handleReset whose success branch clears the state and does not call
\* initializeAdventure
handleReset_settled_noInit(s, o) ==
    LET r == ApiService_resetCampaign_settled(o)
    IN  IF r.ok
        THEN [s EXCEPT !.messages = <<>>, !.inputText = <<>>]
        ELSE [showError(s, <<"Reset Error">>, r) EXCEPT !.isLoading = FALSE]

handleReset_settled(s, o) ==
    LET r == ApiService_resetCampaign_settled(o)
    IN  IF r.ok
        THEN initializeAdventure([s EXCEPT !.messages = <<>>,
                                           !.inputText = <<>>])
        ELSE [showError(s, <<"Reset Error">>, r) EXCEPT !.isLoading = FALSE]

sendMetaCommand(s, command) ==
    IF ~s.view.isLoading THEN sendMessage(s, command) ELSE s

\* a toggle that always switches to light mode
toggle_light(s) == [s EXCEPT !.isDarkMode = FALSE]

\* useTheme: toggle
toggle(s) == [s EXCEPT !.isDarkMode = ~@]

\* the effect run on mount; its closure is that of the first render
mountEffect(s) ==
    IF Len(FirstRender.messages) = 0 /\ ~FirstRender.isLoading
    THEN initializeAdventure(s)
    ELSE s

\* a button: React dispatches no click to a disabled button, so the handler
\* runs (s becomes t) only when the button is enabled
ActionButton(s, disabled, t) == IF disabled THEN s ELSE t

\* MetaButtons: the three buttons are disabled while isLoading
MetaButtons_onMeta(s, command) ==
    ActionButton(s, s.view.isLoading, sendMetaCommand(s, command))

MetaButtons_onReset(s, confirmed) ==
    ActionButton(s, s.view.isLoading, handleReset(s, confirmed))

\* ChatInput: the text field is disabled while isLoading; onChange is
\* setInputText
ChatInput_onChange(s, value) ==
    IF s.view.isLoading THEN s ELSE [s EXCEPT !.inputText = value]

\* ChatInput: the form's submit event reaches sendMessage whatever the state
\* of its controls
ChatInput_onSubmit(s) == sendMessage(s, null)

---------------------------------------------------------------------------
(* SimpleDnDApp.  It calls fetch in each handler and has no theme.         *)

\* the Error a handler's try block throws before it reads the body: fetch
\* rejected, or the status is not 2xx
Simple_fetchError(o) ==
    IF o.fetch = "rejected" THEN Thrown(FetchErrorMessage)
    ELSE IF ~ok(o) THEN Thrown(StatusErrorMessage(o))
    ELSE Resolved(<<>>)

\* ... and after await response.json()
Simple_fetchJson(o) ==
    IF ~Simple_fetchError(o).ok THEN Simple_fetchError(o)
    ELSE IF ~o.json THEN Thrown(JsonErrorMessage)
    ELSE Resolved([response |-> o.response])

Simple_sendInitialPrompt(s) ==
    [s EXCEPT !.isLoading = TRUE,
              !.requests = Append(@, Await("sendInitialPrompt",
                               MessageRequest(InitialPrompt, "true")))]

Simple_sendInitialPrompt_settled(s, o) ==
    LET data == Simple_fetchJson(o)
        t == IF data.ok
             THEN [s EXCEPT !.messages =
                                <<Message("assistant", data.data.response)>>]
             ELSE [s EXCEPT !.messages =
                                <<Message("assistant",
                                    ErrorMarker \o <<"Initialization Error">>
                                    \o <<": ">> \o data.message
                                    \o CheckTerminal)>>]
    IN  [t EXCEPT !.isLoading = FALSE]

\* SimpleDnDApp.handleReset that goes on whatever window.confirm returned
Simple_handleReset_unconfirmed(s, confirmed) ==
    [s EXCEPT !.isLoading = TRUE,
              !.messages = <<Message("assistant", ResetStatusText)>>,
              !.requests = Append(@, Await("handleReset", ResetRequest))]

Simple_handleReset(s, confirmed) ==
    IF ~confirmed
    THEN s
    ELSE [s EXCEPT !.isLoading = TRUE,
                   !.messages = <<Message("assistant", ResetStatusText)>>,
                   !.requests = Append(@, Await("handleReset", ResetRequest))]

\* SimpleDnDApp.handleReset whose catch block leaves isLoading set
Simple_handleReset_settled_busy(s, o) ==
    LET response == Simple_fetchError(o)
    IN  IF response.ok
        THEN Simple_sendInitialPrompt([s EXCEPT !.messages = <<>>,
                                                !.inputText = <<>>])
        ELSE [s EXCEPT !.messages = Append(@, Message("assistant",
                                        ErrorMarker \o <<"Reset Error">>
                                        \o <<": ">> \o response.message
                                        \o CheckTerminal))]

\* SimpleDnDApp.handleReset that starts a new adventure after a failed reset
Simple_handleReset_settled_reinit(s, o) ==
    LET response == Simple_fetchError(o)
    IN  IF response.ok
        THEN Simple_sendInitialPrompt([s EXCEPT !.messages = <<>>,
                                                !.inputText = <<>>])
        ELSE Simple_sendInitialPrompt(
                 [s EXCEPT !.messages = Append(@, Message("assistant",
                                        ErrorMarker \o <<"Reset Error">>
                                        \o <<": ">> \o response.message
                                        \o CheckTerminal))])

Simple_handleReset_settled(s, o) ==
    LET response == Simple_fetchError(o)
    IN  IF response.ok
        THEN Simple_sendInitialPrompt([s EXCEPT !.messages = <<>>,
                                                !.inputText = <<>>])
        ELSE [s EXCEPT !.messages = Append(@, Message("assistant",
                                        ErrorMarker \o <<"Reset Error">>
                                        \o <<": ">> \o response.message
                                        \o CheckTerminal)),
                       !.isLoading = FALSE]

Simple_sendMessage(s, metaCommand) ==
    LET commandToSend ==
            IF metaCommand # null THEN metaCommand ELSE trim(s.view.inputText)
    IN  IF commandToSend = <<>> \/ s.view.isLoading
        THEN s
        ELSE LET userMessage == commandToSend
                 newMessages == Append(s.view.messages, Message("user", userMessage))
                 s1 == [s EXCEPT !.messages = newMessages]
                 s2 == IF metaCommand = null
                       THEN [s1 EXCEPT !.inputText = <<>>]
                       ELSE s1
             IN  [s2 EXCEPT !.isLoading = TRUE,
                            !.requests = Append(@, Await("sendMessage",
                                MessageRequest(userMessage, "absent")))]

Simple_sendMessage_settled(s, o) ==
    LET data == Simple_fetchJson(o)
        t == IF data.ok
             THEN [s EXCEPT !.messages =
                        Append(@, Message("assistant", data.data.response))]
             ELSE [s EXCEPT !.messages =
                        Append(@, Message("assistant",
                            ErrorMarker
                            \o <<"Error communicating with DM server">>
                            \o <<": ">> \o data.message \o CheckTerminal))]
    IN  [t EXCEPT !.isLoading = FALSE]

Simple_sendMetaCommand(s, command) ==
    IF s.view.isLoading THEN s ELSE Simple_sendMessage(s, command)

Simple_mountEffect(s) ==
    IF Len(FirstRender.messages) = 0 /\ ~FirstRender.isLoading
    THEN Simple_sendInitialPrompt(s)
    ELSE s

\* the summary and status buttons, disabled while isLoading
Simple_onMeta(s, command) ==
    IF s.view.isLoading THEN s ELSE Simple_sendMetaCommand(s, command)

\* the reset button, disabled while isLoading
Simple_onReset(s, confirmed) ==
    IF s.view.isLoading THEN s ELSE Simple_handleReset(s, confirmed)

\* the text field, disabled while isLoading
Simple_onChange(s, value) ==
    IF s.view.isLoading THEN s ELSE [s EXCEPT !.inputText = value]

\* the form's onSubmit
Simple_onSubmit(s) == Simple_sendMessage(s, null)

---------------------------------------------------------------------------
(* The rendered component and its events.                                  *)

Apps == {"DungeonMasterApp", "SimpleDnDApp"}

NoOutcome == [fetch |-> "none", status |-> 0, json |-> FALSE, response |-> <<>>]

NoAwait == Await("none", [url |-> "none", input |-> <<>>,
                          campaign_name |-> <<>>, initial |-> "absent"])

\* an event: a user event (mount, type, submit, meta, reset, toggle) with its
\* argument, or the settling (respond) of the index-th request in flight,
\* awaited at `aw`, with outcome `outcome`
Event(op, command, confirmed, aw, outcome, index) ==
    [op |-> op, command |-> command, confirmed |-> confirmed,
     aw |-> aw, outcome |-> outcome, index |-> index]

\* the state after construction: the useState initial values, nothing
\* requested, the mount effect not run yet
InitialClient ==
    [messages |-> <<>>, inputText |-> <<>>, isLoading |-> FALSE,
     isDarkMode |-> TRUE, requests |-> <<>>, mounted |-> FALSE,
     view |-> FirstRender, react |-> "18", history |-> FALSE,
     last |-> [op |-> "none", busy |-> FALSE, input |-> <<>>,
               command |-> null, confirmed |-> FALSE, aw |-> NoAwait,
               outcome |-> NoOutcome, own |-> FALSE],
     attempt |-> [cause |-> "none", before |-> <<>>, idle |-> FALSE, at |-> 0]]

\* history, recorded when s.history is set and read by the properties only.
\* `last` is the event that led from s to t, with isLoading as it was (busy)
\* and, for a submit, the pending input before it.  `attempt` is the latest
\* event that issued a request: what it was (an event that only let the
\* pending mount effect run counts as the mount), the Conversation before a
\* submit, whether isLoading was false, and the position in `requests` of
\* the request it issued for as long as that request is in flight (0
\* afterwards); last.own tells that the request that settled is that one.
Track(s, t, e) ==
    IF ~s.history THEN t ELSE
    LET inFlight == IF e.op = "respond"
                    THEN Len(s.requests) - 1 ELSE Len(s.requests)
    IN
    [t EXCEPT
       !.last = [op |-> e.op, busy |-> s.isLoading,
                 input |-> IF e.op \in {"submit", "meta"}
                           THEN s.inputText ELSE <<>>,
                 command |-> e.command, confirmed |-> e.confirmed,
                 aw |-> e.aw, outcome |-> e.outcome,
                 own |-> e.op = "respond" /\ e.index = s.attempt.at],
       !.attempt = IF Len(t.requests) > inFlight
                   THEN [cause |-> IF e.op \in {"type", "toggle"}
                                   THEN "mount" ELSE e.op,
                         before |-> IF e.op \in {"submit", "meta"}
                                    THEN s.messages ELSE <<>>,
                         idle |-> ~s.isLoading,
                         at |-> inFlight + 1]
                   ELSE IF e.op = "respond"
                        THEN [@ EXCEPT !.at = IF e.index < @ THEN @ - 1
                                              ELSE IF e.index = @ THEN 0
                                              ELSE @]
                        ELSE @]

OnMount(a, s) ==
    IF a = "DungeonMasterApp"
    THEN [mountEffect(s) EXCEPT !.mounted = TRUE]
    ELSE [Simple_mountEffect(s) EXCEPT !.mounted = TRUE]

OnChange(a, s, value) ==
    IF a = "DungeonMasterApp"
    THEN ChatInput_onChange(s, value)
    ELSE Simple_onChange(s, value)

OnSubmit(a, s) ==
    IF a = "DungeonMasterApp" THEN ChatInput_onSubmit(s) ELSE Simple_onSubmit(s)

OnMeta(a, s, command) ==
    IF a = "DungeonMasterApp"
    THEN MetaButtons_onMeta(s, command)
    ELSE Simple_onMeta(s, command)

OnReset(a, s, confirmed) ==
    IF a = "DungeonMasterApp"
    THEN MetaButtons_onReset(s, confirmed)
    ELSE Simple_onReset(s, confirmed)

\* only DungeonMasterApp renders the ThemeToggle
OnToggle(a, s) == IF a = "DungeonMasterApp" THEN toggle(s) ELSE s

\* the handler suspended at `aw` resumes with outcome o
OnSettled(a, s, aw, o) ==
    IF a = "DungeonMasterApp"
    THEN CASE aw.by = "initializeAdventure" -> initializeAdventure_settled(s, o)
           [] aw.by = "sendMessage" -> sendMessage_settled(s, o)
           [] aw.by = "handleReset" -> handleReset_settled(s, o)
    ELSE CASE aw.by = "sendInitialPrompt" -> Simple_sendInitialPrompt_settled(s, o)
           [] aw.by = "sendMessage" -> Simple_sendMessage_settled(s, o)
           [] aw.by = "handleReset" -> Simple_handleReset_settled(s, o)

Remove(q, i) == SubSeq(q, 1, i - 1) \o SubSeq(q, i + 1, Len(q))

Rendered == DOMAIN client

\* the client as its latest render shows it
Seen(s) ==
    [s EXCEPT !.messages = s.view.messages, !.inputText = s.view.inputText,
              !.isLoading = s.view.isLoading]

\* the state the handlers can set, and the requests they can issue
Settable(s) ==
    <<s.messages, s.inputText, s.isLoading, s.isDarkMode, s.requests>>

\* a user event has been dispatched to a handler: t is what the handler made
\* of s, reading what the latest render shows, and shown is what it makes of
\* the rendered state.  If it has set state, React renders at once: it first
\* runs the mount effect if that is still pending, then renders.  React 18
\* renders the updates of this event on top of what was shown, and the
\* updates made outside an event (by the mount effect, by a settled request)
\* wait for the next render; React 19 renders them all.
Dispatch(a, s, t, shown) ==
    LET t1 == IF ~s.mounted /\ Settable(t) # Settable(s)
              THEN [(IF a = "DungeonMasterApp"
                     THEN mountEffect(t) ELSE Simple_mountEffect(t))
                      EXCEPT !.mounted = TRUE]
              ELSE t
    IN  IF s.react = "18"
        THEN [t1 EXCEPT !.view = Shared(shown)]
        ELSE IF Settable(t1) # Settable(s) \/ shown # Seen(s)
             THEN [t1 EXCEPT !.view = Shared(t1)]
             ELSE t1

Within(c, d) ==
    \A a \in DOMAIN c :
        Len(d[a].messages) > Len(c[a].messages)
        => Len(d[a].messages) + Len(d[a].requests) <= MaxMessages + 1

Init ==
    \E a \in Apps, r \in ReactVersions :
        client = [x \in {a} |-> [InitialClient EXCEPT !.react = r]]

\* the mount effect runs on its own, before any event has set state
Mount ==
    /\ \E a \in Rendered : ~client[a].mounted
    /\ client' = [a \in Rendered |->
                    IF client[a].mounted
                    THEN client[a]
                    ELSE Track(client[a], OnMount(a, client[a]),
                               Event("mount", null, FALSE, NoAwait, NoOutcome, 0))]

\* React renders the updates that were waiting
Render ==
    /\ \E a \in Rendered : client[a].view # Shared(client[a])
    /\ client' = [a \in Rendered |->
                    IF client[a].view = Shared(client[a])
                    THEN client[a]
                    ELSE Track(client[a],
                               [client[a] EXCEPT !.view = Shared(client[a])],
                               Event("render", null, FALSE, NoAwait, NoOutcome, 0))]

\* the text field is a controlled input: onChange fires with a value other
\* than the one the field shows
Type ==
    \E value \in Texts :
        /\ \A a \in Rendered : value # client[a].view.inputText
        /\ client' = [a \in Rendered |->
                        Track(client[a],
                              Dispatch(a, client[a],
                                       OnChange(a, client[a], value),
                                       OnChange(a, Seen(client[a]), value)),
                              Event("type", null, FALSE, NoAwait, NoOutcome,
                                    0))]

Submit ==
    /\ client' = [a \in Rendered |->
                    Track(client[a],
                          Dispatch(a, client[a], OnSubmit(a, client[a]),
                                   OnSubmit(a, Seen(client[a]))),
                          Event("submit", null, FALSE, NoAwait, NoOutcome, 0))]
    /\ Within(client, client')

Meta ==
    /\ \E command \in MetaCommandSet :
         client' = [a \in Rendered |->
                      Track(client[a],
                            Dispatch(a, client[a], OnMeta(a, client[a], command),
                                     OnMeta(a, Seen(client[a]), command)),
                            Event("meta", command, FALSE, NoAwait, NoOutcome, 0))]
    /\ Within(client, client')

Reset ==
    /\ \E confirmed \in BOOLEAN :
         client' = [a \in Rendered |->
                      Track(client[a],
                            Dispatch(a, client[a], OnReset(a, client[a], confirmed),
                                     OnReset(a, Seen(client[a]), confirmed)),
                            Event("reset", null, confirmed, NoAwait, NoOutcome, 0))]
    /\ Within(client, client')

ToggleTheme ==
    client' = [a \in Rendered |->
                 Track(client[a],
                       Dispatch(a, client[a], OnToggle(a, client[a]),
                                OnToggle(a, Seen(client[a]))),
                       Event("toggle", null, FALSE, NoAwait, NoOutcome, 0))]

\* what the handlers close over when state t has not been rendered yet and
\* the latest render showed v.  The handlers of DungeonMasterApp close over
\* inputText and isLoading only (appendMessage is a functional update), so
\* their view of Conversation is never read and is kept current.
Unrendered(a, v, t) ==
    IF a = "DungeonMasterApp" THEN [v EXCEPT !.messages = t.messages] ELSE v

\* the i-th request in flight settles with outcome o and its handler
\* resumes.  The state it sets waits for the next render.
Resume(a, s, i, o) ==
    LET aw == s.requests[i]
        t == OnSettled(a, [s EXCEPT !.requests = Remove(@, i)], aw, o)
    IN  [t EXCEPT !.view = Unrendered(a, @, t)]

Settle(a, s, i, o) ==
    IF i > Len(s.requests)
    THEN s
    ELSE Track(s, Resume(a, s, i, o),
               Event("respond", null, FALSE, s.requests[i], o, i))

\* the positions of the requests in flight
InFlight == UNION {1..Len(client[a].requests) : a \in Rendered}

Respond ==
    \E i \in InFlight, o \in Outcomes :
        client' = [a \in Rendered |-> Settle(a, client[a], i, o)]

Next ==
    Mount \/ Render \/ Type \/ Submit \/ Meta \/ Reset \/ ToggleTheme \/ Respond

Spec == Init /\ [][Next]_vars

\* every request is answered
FairSpec == Spec /\ WF_vars(Respond)

\* the same component with its history recorded, for the properties of
\* sequences of steps
HistoryInit ==
    \E a \in Apps, r \in ReactVersions :
        client = [x \in {a} |->
                    [InitialClient EXCEPT !.react = r, !.history = TRUE]]

HistorySpec == HistoryInit /\ [][Next]_vars

\* both components rendered side by side: every user event reaches both, and
\* the requests they have in flight at the same position settle with the
\* same outcome
LockstepInit ==
    \E r \in ReactVersions :
        client = [a \in Apps |->
                    [InitialClient EXCEPT !.react = r, !.history = TRUE]]

\* the comparison goes on for as long as the two components agree on it
InStep(c) == \A a, b \in DOMAIN c : Shared(c[a]) = Shared(c[b])

\* the events the two components share: SimpleDnDApp has no theme
LockstepNext ==
    \/ InStep(client) /\ Mount
    \/ InStep(client) /\ Render
    \/ InStep(client) /\ Type
    \/ InStep(client) /\ Submit
    \/ InStep(client) /\ Meta
    \/ InStep(client) /\ Reset
    \/ InStep(client) /\ Respond

LockstepSpec == LockstepInit /\ [][LockstepNext]_vars

---------------------------------------------------------------------------
(* Properties.                                                             *)

\* the state the handlers set and the requests in flight are the same in s
\* and t
Same(s, t) == Settable(s) = Settable(t)

\* a reset request got a 2xx response; nothing is said about its body
ResetSucceeds(o) == o.fetch = "resolved" /\ o.status \in 200..299

\* a message request got a 2xx response whose body is {response: r}
Succeeds(o) == o.fetch = "resolved" /\ o.status \in 200..299 /\ o.json

\* the request failed: transport failure or non-2xx status
Fails(o) == o.fetch = "rejected" \/ o.status \notin 200..299

\* an assistant Message that carries the error marker
IsErrorMessage(m) ==
    /\ m.role = "assistant"
    /\ Len(m.content) >= Len(ErrorMarker)
    /\ SubSeq(m.content, 1, Len(ErrorMarker)) = ErrorMarker

\* sendMetaCommand of the rendered component, called directly
MetaCommandOf(a, s, command) ==
    IF a = "DungeonMasterApp"
    THEN sendMetaCommand(s, command)
    ELSE Simple_sendMetaCommand(s, command)

\* handleReset of the rendered component, called directly
HandleResetOf(a, s, confirmed) ==
    IF a = "DungeonMasterApp"
    THEN handleReset(s, confirmed)
    ELSE Simple_handleReset(s, confirmed)

InitHandlers == {"initializeAdventure", "sendInitialPrompt"}

\* the positions of the requests in flight of s that handler `by` awaits
AwaitedBy(s, by) == {i \in 1..Len(s.requests) : s.requests[i].by \in by}

IsPrefix(p, q) == Len(p) <= Len(q) /\ SubSeq(q, 1, Len(p)) = p

\* the last event settled the request that the latest request-issuing event,
\* one of `cause`, had issued, and handler `by` resumed
Resumed(s, by, cause) ==
    /\ s.last.op = "respond"
    /\ s.last.own
    /\ s.last.aw.by \in by
    /\ s.attempt.cause \in cause

\* C1: in every reachable state at most one HTTP request (message or reset)
\* is outstanding.
C1_AtMostOneOutstanding ==
    \A a \in Rendered : Len(client[a].requests) <= 1

\* C2: a submit (typed text or meta-command) invoked while isLoading is true
\* changes neither Conversation nor the pending input and issues no request:
\* in every reachable state with isLoading, the submit event, the meta button
\* and a direct call of sendMetaCommand leave the state as it is.
C2_SubmitWhileLoadingNoEffect ==
    \A a \in Rendered :
        client[a].isLoading =>
            /\ Same(OnSubmit(a, client[a]), client[a])
            /\ \A command \in MetaCommandSet :
                 /\ Same(OnMeta(a, client[a], command), client[a])
                 /\ Same(MetaCommandOf(a, client[a], command), client[a])

\* C3: a submit of typed text whose pending input (the text the field
\* holds, which is the text the submit reads) is empty or only whitespace
\* changes nothing (Conversation, pending input, isLoading) and issues no
\* request.
C3_BlankSubmitNoEffect ==
    \A a \in Rendered :
        (\A i \in 1..Len(client[a].view.inputText) :
            client[a].view.inputText[i] \in Whitespace)
        => Same(OnSubmit(a, client[a]), client[a])

\* the adventure has begun, the client is idle and shows it, and the field
\* holds whitespace only: a submit now changes nothing
C3_Witness ==
    \E a \in Rendered :
        /\ client[a].mounted
        /\ ~client[a].isLoading
        /\ client[a].view = Shared(client[a])
        /\ client[a].requests = <<>>
        /\ client[a].messages # <<>>
        /\ client[a].inputText # <<>>
        /\ trim(client[a].inputText) = <<>>
        /\ Same(OnSubmit(a, client[a]), client[a])

\* C4: a submit of non-empty text while idle whose request succeeds leaves
\* Conversation equal to the Conversation before the submit followed by
\* exactly two Messages: the user Message with the submitted text, then the
\* assistant Message with the service's response.
C4_SubmitSuccessAppendsTwo ==
    \A a \in Rendered :
        LET s == client[a] IN
        (/\ Resumed(s, {"sendMessage"}, {"submit"})
         /\ s.attempt.idle
         /\ Succeeds(s.last.outcome))
        => s.messages =
             s.attempt.before
             \o <<Message("user", s.last.aw.request.input),
                  Message("assistant", s.last.outcome.response)>>

\* C5: when the request of a submit fails (transport failure or non-2xx
\* status), exactly one Message is appended to Conversation, an assistant
\* Message carrying the error marker; it comes after the user Message of
\* that submit, which is still in Conversation; and isLoading is false.
C5_SubmitFailureAppendsError ==
    \A a \in Rendered :
        \A i \in AwaitedBy(client[a], {"sendMessage"}) :
            \A o \in Outcomes :
                Fails(o) =>
                    LET t == Resume(a, client[a], i, o)
                        n == Len(t.messages)
                    IN  /\ n = Len(client[a].messages) + 1
                        /\ SubSeq(t.messages, 1, n - 1) = client[a].messages
                        /\ \E j \in 1..(n - 1) :
                               t.messages[j] =
                                 Message("user",
                                         client[a].requests[i].request.input)
                        /\ IsErrorMessage(t.messages[n])
                        /\ ~t.isLoading

\* C6: provided every outstanding request completes, whenever isLoading is
\* true it eventually becomes false, after a submit, an initialize or a
\* reset and whatever the outcome of each request.
C6_LoadingEventuallyClears ==
    \A a \in Apps :
        (a \in Rendered /\ client[a].isLoading)
        ~> (a \in Rendered /\ ~client[a].isLoading)

\* the client is idle again after an initial request that failed: nothing is
\* in flight and Conversation is the one Message of the initialization error
C6_Witness ==
    \E a \in Rendered :
        /\ client[a].mounted
        /\ ~client[a].isLoading
        /\ client[a].requests = <<>>
        /\ Len(client[a].messages) = 1
        /\ IsErrorMessage(client[a].messages[1])
        /\ client[a].messages[1].content[2] = "Initialization Error"

\* C7: a reset whose confirmation is declined changes nothing (Conversation,
\* pending input, isLoading) and issues no request, whether it comes from the
\* reset button or from a direct call of handleReset.
C7_DeclinedResetNoEffect ==
    \A a \in Rendered :
        /\ Same(OnReset(a, client[a], FALSE), client[a])
        /\ Same(HandleResetOf(a, client[a], FALSE), client[a])

\* a state in which declining matters: the client is idle with a
\* Conversation and a pending input to lose, and the reset button is enabled
\* (confirming would replace Conversation and issue the reset request)
C7_Witness ==
    \E a \in Rendered :
        /\ Len(client[a].messages) = 3
        /\ client[a].inputText # <<>>
        /\ ~client[a].isLoading
        /\ client[a].requests = <<>>
        /\ Len(OnReset(a, client[a], TRUE).requests) = 1
        /\ Same(OnReset(a, client[a], FALSE), client[a])

\* C8: after a confirmed reset whose reset request succeeded, once the
\* follow-up initial request has completed, Conversation is exactly the
\* result of that initialize: one assistant Message (the response, or the
\* error Message when the initial request failed), nothing from before the
\* reset and no status Message.
C8_ResetThenInitialize ==
    \A a \in Rendered :
        LET s == client[a] IN
        Resumed(s, InitHandlers, {"respond"})
        => /\ Len(s.messages) = 1
           /\ s.messages[1].role = "assistant"
           /\ Succeeds(s.last.outcome)
                => s.messages[1].content = s.last.outcome.response
           /\ ~Succeeds(s.last.outcome) => IsErrorMessage(s.messages[1])
           /\ s.messages[1].content # ResetStatusText

\* C9: when the reset request of a confirmed reset fails (transport failure
\* or non-2xx status), an assistant error Message is appended to
\* Conversation, isLoading becomes false and no initial request is issued:
\* the only change to the requests in flight is that the reset request is
\* gone.
C9_ResetFailure ==
    \A a \in Rendered :
        \A i \in AwaitedBy(client[a], {"handleReset"}) :
            \A o \in Outcomes :
                Fails(o) =>
                    LET t == Resume(a, client[a], i, o)
                        n == Len(t.messages)
                    IN  /\ n = Len(client[a].messages) + 1
                        /\ SubSeq(t.messages, 1, n - 1) = client[a].messages
                        /\ IsErrorMessage(t.messages[n])
                        /\ ~t.isLoading
                        /\ t.requests = Remove(client[a].requests, i)

\* a reset request has failed: the client is idle, nothing is in flight and
\* the reset error follows the status Message
C9_Witness ==
    \E a \in Rendered :
        /\ ~client[a].isLoading
        /\ client[a].requests = <<>>
        /\ Len(client[a].messages) = 2
        /\ client[a].messages[1] = Message("assistant", ResetStatusText)
        /\ IsErrorMessage(client[a].messages[2])
        /\ client[a].messages[2].content[2] = "Reset Error"

\* the Conversation a submit appends to: sendMessage of DungeonMasterApp
\* appends to the current state, that of SimpleDnDApp to the Conversation of
\* the latest render
AppendsTo(a, s) ==
    IF a = "DungeonMasterApp" THEN s.messages ELSE s.view.messages

\* C10 as stated: a meta-command submitted while idle appends no user Message
\* to Conversation.
C10_MetaAppendsNoUserMessage ==
    \A a \in Rendered :
        ~client[a].isLoading =>
            \A command \in MetaCommandSet :
                LET t == OnMeta(a, client[a], command)
                IN  \A j \in (Len(client[a].messages) + 1)..Len(t.messages) :
                        t.messages[j].role # "user"

\* C10 amended: a submit of a meta-command while idle and shown idle
\* (isLoading is false, and false in the latest render) is accepted; an
\* accepted submit of a meta-command makes Conversation the Conversation it
\* read followed by a user Message whose content is the command keyword
\* (sendMessage of DungeonMasterApp reads the current Conversation, that of
\* SimpleDnDApp the one of its latest render) and issues the request for it;
\* when the request of a meta-command settles, the assistant reply, or an
\* error Message on failure, is appended to Conversation.
C10_MetaAppendsUserThenReply ==
    \A a \in Rendered :
        LET s == client[a] IN
        /\ \A command \in MetaCommandSet :
               LET t == OnMeta(a, s, command)
               IN  /\ ~s.isLoading /\ ~s.view.isLoading => ~Same(t, s)
                   /\ ~Same(t, s)
                      => /\ t.messages =
                              Append(AppendsTo(a, s), Message("user", command))
                         /\ Len(t.requests) = Len(s.requests) + 1
                         /\ t.requests[Len(t.requests)].by = "sendMessage"
                         /\ t.requests[Len(t.requests)].request.input
                              = command
        /\ \A i \in AwaitedBy(s, {"sendMessage"}) :
               s.requests[i].request.input \in MetaCommandSet =>
                   \A o \in Outcomes :
                       LET t == Resume(a, s, i, o)
                           n == Len(t.messages)
                       IN  /\ n = Len(s.messages) + 1
                           /\ SubSeq(t.messages, 1, n - 1) = s.messages
                           /\ t.messages[n].role = "assistant"
                           /\ Succeeds(o) => t.messages[n].content = o.response
                           /\ ~Succeeds(o) => IsErrorMessage(t.messages[n])

\* the summary command was sent after the adventure began and the service
\* has answered it
C10_Witness ==
    \E a \in Rendered :
        /\ Len(client[a].messages) = 3
        /\ client[a].messages[1].role = "assistant"
        /\ client[a].messages[2] = Message("user", META_COMMANDS.SUMMARY)
        /\ client[a].messages[3].role = "assistant"
        /\ ~IsErrorMessage(client[a].messages[3])
        /\ ~client[a].isLoading
        /\ client[a].requests = <<>>

\* C11: when an initial request completes (the one of the start or the one
\* that follows a reset), Conversation is exactly one assistant Message: the
\* service's response on success, an error Message with the error marker on
\* failure; its length is 1 in both cases.
C11_InitializeLeavesOneMessage ==
    \A a \in Rendered :
        \A i \in AwaitedBy(client[a], InitHandlers) :
            \A o \in Outcomes :
                LET t == Resume(a, client[a], i, o)
                IN  /\ Len(t.messages) = 1
                    /\ Succeeds(o)
                         => t.messages = <<Message("assistant", o.response)>>
                    /\ ~Succeeds(o) => IsErrorMessage(t.messages[1])

\* C12: toggleTheme flips isDarkMode and changes nothing else: in every
\* reachable state of DungeonMasterApp (the component that has a theme), also
\* while a request is outstanding, it leaves Conversation, pending input,
\* isLoading and the requests in flight as they are, and a second toggle
\* restores isDarkMode.
C12_ToggleThemeOnlyFlips ==
    \A a \in Rendered :
        a = "DungeonMasterApp" =>
            LET s == client[a]
                t == OnToggle(a, s)
            IN  /\ t.isDarkMode = ~s.isDarkMode
                /\ t.messages = s.messages
                /\ t.inputText = s.inputText
                /\ t.isLoading = s.isLoading
                /\ t.requests = s.requests
                /\ Same(OnToggle(a, t), s)

\* the theme is light, so it was toggled, while the request of a submit is
\* outstanding
C12_Witness ==
    \E a \in Rendered :
        /\ ~client[a].isDarkMode
        /\ client[a].isLoading
        /\ Len(client[a].requests) = 1
        /\ client[a].requests[1].by = "sendMessage"
        /\ Len(client[a].messages) = 2

\* C13: in every reachable state, if a request is outstanding then isLoading
\* is true.
C13_OutstandingImpliesLoading ==
    \A a \in Rendered :
        client[a].requests # <<>> => client[a].isLoading

\* C14: Conversation is append-only outside reset and initialize: every step
\* taken by submit (its start, typed or meta-command, and the settling of
\* its request with success or failure) and by toggleTheme leaves the
\* previous Conversation as a prefix of the new one, each Message of it with
\* its role and content.
C14_AppendOnly ==
    \A a \in Rendered :
        LET s == client[a] IN
        /\ IsPrefix(s.messages, OnSubmit(a, s).messages)
        /\ \A command \in MetaCommandSet :
               IsPrefix(s.messages, OnMeta(a, s, command).messages)
        /\ \A i \in AwaitedBy(s, {"sendMessage"}) :
               \A o \in Outcomes :
                   IsPrefix(s.messages, Resume(a, s, i, o).messages)
        /\ IsPrefix(s.messages, OnToggle(a, s).messages)

\* the number of error Messages in a Conversation
ErrorCount(m) == Cardinality({i \in 1..Len(m) : IsErrorMessage(m[i])})

\* q is p with one request more at its end
OneMore(p, q) == Len(q) = Len(p) + 1 /\ SubSeq(q, 1, Len(p)) = p

\* C15: there is no retry.  Each accepted submit (typed or meta-command),
\* each initialize and each confirmed reset issues exactly one request.  A
\* request that settles is followed by no further request, except the one
\* initial request after a reset that did not fail.  Each failed request
\* (transport failure or non-2xx status) issues nothing and produces exactly
\* one error Message: it is appended to Conversation, or is the whole
\* Conversation when an initialize replaces it.
C15_NoRetry ==
    \A a \in Rendered :
        LET s == client[a] IN
        /\ ~Same(OnSubmit(a, s), s) => OneMore(s.requests, OnSubmit(a, s).requests)
        /\ \A command \in MetaCommandSet :
               ~Same(OnMeta(a, s, command), s)
               => OneMore(s.requests, OnMeta(a, s, command).requests)
        /\ ~Same(OnReset(a, s, TRUE), s)
               => OneMore(s.requests, OnReset(a, s, TRUE).requests)
        /\ OneMore(s.requests, OnMount(a, s).requests)
        /\ \A i \in 1..Len(s.requests) :
               \A o \in Outcomes :
                   LET t == Resume(a, s, i, o)
                       rest == Remove(s.requests, i)
                       n == Len(t.messages)
                   IN  /\ \/ t.requests = rest
                          \/ /\ s.requests[i].by = "handleReset"
                             /\ ~Fails(o)
                             /\ OneMore(rest, t.requests)
                             /\ t.requests[Len(t.requests)].by \in InitHandlers
                       /\ Fails(o)
                          => /\ t.requests = rest
                             /\ n >= 1
                             /\ IsErrorMessage(t.messages[n])
                             /\ \/ SubSeq(t.messages, 1, n - 1) = s.messages
                                \/ n = 1 /\ s.requests[i].by \in InitHandlers

\* the request of a typed submit made after the adventure began has failed:
\* one error Message after the user Message, nothing in flight
C15_Witness ==
    \E a \in Rendered :
        /\ Len(client[a].messages) = 3
        /\ client[a].messages[2].role = "user"
        /\ client[a].messages[2].content \notin MetaCommandSet
        /\ IsErrorMessage(client[a].messages[3])
        /\ ErrorCount(client[a].messages) = 1
        /\ client[a].requests = <<>>
        /\ ~client[a].isLoading

\* the requests in flight that submit has issued
Submitted(q) == SelectSeq(q, LAMBDA aw : aw.by = "sendMessage")

\* the user Messages of a Conversation
UserMessages(m) == SelectSeq(m, LAMBDA x : x.role = "user")

\* the step from s to t issues no request of a submit and shows no user
\* Message that was not there
NothingSubmitted(s, t) ==
    /\ Submitted(t.requests) = Submitted(s.requests)
    /\ UserMessages(t.messages) \in {UserMessages(s.messages), <<>>}

\* C16: a submission rejected because isLoading was true is dropped for good.
\* The rejected submit leaves no trace in the client; and no step other than
\* a new submit issues a request of a submit or adds a user Message: not the
\* completion of the outstanding request nor any later completion, not a
\* reset, an edit of the pending input, a theme toggle, the mount effect or
\* a render.
C16_RejectedIsDropped ==
    \A a \in Rendered :
        LET s == client[a] IN
        /\ s.view.isLoading => OnSubmit(a, s) = s
        /\ \A i \in 1..Len(s.requests) :
               \A o \in Outcomes :
                   NothingSubmitted([s EXCEPT !.requests = Remove(@, i)],
                                    Resume(a, s, i, o))
        /\ \A confirmed \in BOOLEAN :
               NothingSubmitted(s, OnReset(a, s, confirmed))
        /\ \A value \in Texts : NothingSubmitted(s, OnChange(a, s, value))
        /\ NothingSubmitted(s, OnToggle(a, s))
        /\ NothingSubmitted(s, OnMount(a, s))

\* text is pending while the request of a meta-command is outstanding and
\* isLoading is shown: a submit of that text is rejected now, and the text
\* has not been sent and is not in Conversation
C16_Witness ==
    \E a \in Rendered :
        /\ client[a].view.isLoading
        /\ trim(client[a].inputText) # <<>>
        /\ client[a].view.inputText = client[a].inputText
        /\ Len(client[a].requests) = 1
        /\ client[a].requests[1].by = "sendMessage"
        /\ client[a].requests[1].request.input # trim(client[a].inputText)
        /\ \A j \in 1..Len(client[a].messages) :
               client[a].messages[j].content # trim(client[a].inputText)
        /\ OnSubmit(a, client[a]) = client[a]

\* C17: while the reset request of a confirmed reset is outstanding,
\* isLoading is true and Conversation is exactly the transient status
\* Message; and when the reset request fails, Conversation is exactly the
\* status Message followed by one error Message.
C17_ResetReplacesConversation ==
    \A a \in Rendered :
        \A i \in AwaitedBy(client[a], {"handleReset"}) :
            /\ client[a].isLoading
            /\ client[a].messages = <<Message("assistant", ResetStatusText)>>
            /\ \A o \in Outcomes :
                   Fails(o) =>
                       LET t == Resume(a, client[a], i, o)
                       IN  /\ Len(t.messages) = 2
                           /\ t.messages[1] =
                                Message("assistant", ResetStatusText)
                           /\ IsErrorMessage(t.messages[2])

\* the number of requests in flight that carry initial=true
InitialCount(q) ==
    Cardinality({i \in 1..Len(q) : q[i].request.initial = "true"})

\* the results of the user events that can reach the client in state s
AfterEvent(a, s) ==
    {OnSubmit(a, s), OnToggle(a, s)}
    \cup {OnMeta(a, s, command) : command \in MetaCommandSet}
    \cup {OnReset(a, s, confirmed) : confirmed \in BOOLEAN}
    \cup {OnChange(a, s, value) : value \in Texts}

\* C18: the start issues exactly one initial request, with Conversation
\* empty and isLoading false: the mount effect runs either on its own or
\* when the first event that set state lets it run, and the state it then
\* finds has no Message and is idle.  Afterwards no user event issues an
\* initial request, and the completion of a request issues one only if it
\* is a reset request that succeeded, and then exactly one.  A message
\* request in flight carries initial=true if and only if initialize issued
\* it, with the fixed prompt; a request issued by submit never carries it.
C18_InitialRequests ==
    \A a \in Rendered :
        LET s == client[a] IN
        /\ ~s.mounted
           => /\ s.messages = <<>> /\ ~s.isLoading /\ s.requests = <<>>
              /\ InitialCount(OnMount(a, s).requests) = 1
              /\ \A t \in AfterEvent(a, s) :
                     ~Same(t, s)
                     => /\ t.messages = <<>> /\ ~t.isLoading
                        /\ InitialCount(OnMount(a, t).requests) = 1
        /\ \A t \in AfterEvent(a, s) :
               InitialCount(t.requests) = InitialCount(s.requests)
        /\ \A i \in 1..Len(s.requests) :
               \A o \in Outcomes :
                   LET rest == Remove(s.requests, i)
                       t == Resume(a, s, i, o)
                   IN  IF s.requests[i].by = "handleReset" /\ ok(o) /\ o.json
                       THEN InitialCount(t.requests) = InitialCount(rest) + 1
                       ELSE InitialCount(t.requests) > InitialCount(rest)
                            => s.requests[i].by = "handleReset" /\ ok(o)
        /\ \A i \in 1..Len(s.requests) :
               s.requests[i].request.url = "/api/message"
               => /\ s.requests[i].request.initial = "true"
                     <=> s.requests[i].by \in InitHandlers
                  /\ s.requests[i].by \in InitHandlers
                     => s.requests[i].request.input = InitialPrompt
                  /\ s.requests[i].by = "sendMessage"
                     => s.requests[i].request.initial # "true"

\* C19: in every reachable state, if isLoading is true then a request is
\* outstanding.  The completion of a successful reset request and the issue
\* of the follow-up initial request are one step, so the client is never
\* busy with nothing in flight.
C19_LoadingImpliesOutstanding ==
    \A a \in Rendered : client[a].isLoading => client[a].requests # <<>>

\* a reset request is the only request in flight, and when it succeeds the
\* client is still busy, with the follow-up initial request in flight
C19_Witness ==
    \E a \in Rendered :
        /\ client[a].isLoading
        /\ Len(client[a].requests) = 1
        /\ client[a].requests[1].by = "handleReset"
        /\ \A o \in Outcomes :
               ResetSucceeds(o) =>
                   LET t == Resume(a, client[a], 1, o)
                   IN  /\ t.isLoading
                       /\ t.messages = <<>>
                       /\ Len(t.requests) = 1
                       /\ t.requests[1].by \in InitHandlers

\* C20: an accepted submit of typed text empties the pending input; an
\* accepted meta-command leaves the pending input as it was and sends the
\* command, and it is accepted whatever the pending input holds; the
\* completion of a successful reset request empties the pending input and
\* the completion of a failed one leaves it as it was.
C20_PendingInput ==
    \A a \in Rendered :
        LET s == client[a] IN
        /\ ~Same(OnSubmit(a, s), s) => OnSubmit(a, s).inputText = <<>>
        /\ \A command \in MetaCommandSet :
               LET t == OnMeta(a, s, command)
               IN  /\ ~s.view.isLoading => ~Same(t, s)
                   /\ ~Same(t, s)
                      => /\ t.inputText = s.inputText
                         /\ OneMore(s.requests, t.requests)
                         /\ t.requests[Len(t.requests)].request.input = command
        /\ \A i \in AwaitedBy(s, {"handleReset"}) :
               \A o \in Outcomes :
                   /\ ResetSucceeds(o)
                      => Resume(a, s, i, o).inputText = <<>>
                   /\ Fails(o) => Resume(a, s, i, o).inputText = s.inputText

\* the reset request of DungeonMasterApp got a 2xx response whose body is
\* not JSON while text was pending: the client shows a reset error and the
\* text is still pending
C20_Witness ==
    /\ "DungeonMasterApp" \in Rendered
    /\ LET s == client["DungeonMasterApp"]
       IN  /\ s.inputText # <<>>
           /\ ~s.isLoading
           /\ s.requests = <<>>
           /\ Len(s.messages) = 2
           /\ s.messages[2] =
                Message("assistant",
                        ErrorMarker \o <<"Reset Error">> \o <<": ">>
                        \o JsonErrorMessage \o CheckTerminal)

\* state t is state s after a submit that appended the user Message with
\* text x and issued one message request whose input is x
SubmittedAs(s, t, x) ==
    /\ Len(t.messages) >= 1
    /\ t.messages[Len(t.messages)] = Message("user", x)
    /\ OneMore(s.requests, t.requests)
    /\ t.requests[Len(t.requests)].request.url = "/api/message"
    /\ t.requests[Len(t.requests)].request.input = x
    /\ t.requests[Len(t.requests)].request.input
         = t.messages[Len(t.messages)].content

\* C21: for every accepted submit, the input sent in the message request
\* equals the content of the user Message appended for it; for typed text
\* both are the pending input (the text the field holds, which is the text
\* the submit reads) with leading and trailing whitespace removed, for a
\* meta-command both are the command.
C21_SentEqualsShown ==
    \A a \in Rendered :
        LET s == client[a] IN
        /\ ~Same(OnSubmit(a, s), s)
           => SubmittedAs(s, OnSubmit(a, s), trim(s.view.inputText))
        /\ \A command \in MetaCommandSet :
               ~Same(OnMeta(a, s, command), s)
               => SubmittedAs(s, OnMeta(a, s, command), command)

\* the field holds a word with whitespace around it and the client shows
\* idle: a submit now is accepted, and the request and the user Message both
\* carry the word without the whitespace
C21_Witness ==
    \E a \in Rendered :
        LET s == client[a]
            t == OnSubmit(a, s)
        IN  /\ s.mounted
            /\ ~s.view.isLoading
            /\ trim(s.view.inputText) # <<>>
            /\ trim(s.view.inputText) # s.view.inputText
            /\ Len(t.requests) = Len(s.requests) + 1
            /\ t.requests[Len(t.requests)].request.input
                 = trim(s.view.inputText)
            /\ t.messages[Len(t.messages)]
                 = Message("user", trim(s.view.inputText))

\* C22: DungeonMasterApp and SimpleDnDApp are equivalent on shared state:
\* given the same start-up, submit, meta-command and reset events and the
\* same request outcomes, both have the same Conversation, pending input and
\* isLoading after each step.
C22_Equivalent ==
    Rendered = Apps
    => Shared(client["DungeonMasterApp"]) = Shared(client["SimpleDnDApp"])

\* a reset request of both components settled with status 200 and a body
\* that is not JSON: DungeonMasterApp shows a reset error and is idle,
\* SimpleDnDApp has cleared Conversation and waits for the initial request
C22_Witness ==
    /\ Rendered = Apps
    /\ client["DungeonMasterApp"].last.op = "respond"
    /\ client["DungeonMasterApp"].last.aw.request.url = "/api/reset"
    /\ client["SimpleDnDApp"].last.aw.request.url = "/api/reset"
    /\ client["DungeonMasterApp"].last.outcome.status = 200
    /\ ~client["DungeonMasterApp"].last.outcome.json
    /\ ~client["DungeonMasterApp"].isLoading
    /\ Len(client["DungeonMasterApp"].messages) = 2
    /\ IsErrorMessage(client["DungeonMasterApp"].messages[2])
    /\ client["SimpleDnDApp"].isLoading
    /\ client["SimpleDnDApp"].messages = <<>>

===========================================================================
